---- MODULE Spec2Model ----
(***************************************************************************)
(* Model of the quiz generation pipeline of the AI Wiki Quiz Generator     *)
(* backend: the /generate_quiz handler and the reading handlers (main.py), *)
(* the cache lookup and statistics (cache_manager.py), the quizzes table   *)
(* (database.py), the scraper (scraper.py), the synthesizer                *)
(* (llm_quiz_generator.py) and the schema (models.py).                     *)
(*                                                                         *)
(* Strings whose content the code inspects are sequences: a URL is a       *)
(* sequence of lexical pieces ("SP" is one whitespace character), a        *)
(* difficulty label is a sequence of ASCII codes, a backend response is a  *)
(* sequence of lexical tokens ("FENCE" is a run of three backquotes).       *)
(* Article text is represented by its length, a slice of it by the offset  *)
(* of its first character and its length.                                  *)
(***************************************************************************)
EXTENDS Integers, Sequences, FiniteSets, TLC

\* ------------------------------------------------------------------ bounds

\* concurrent requests in flight
NumProcs == 2
\* ticks of the wall clock
MaxClock == 1
\* models in a listing of the backend
MaxListing == 2

\* ------------------------------------------------------- program constants

\* main.py:106  len(text) < 200
MinTextLen == 200
\* spec 3 / prompt line 36: a quiz has 5 to 10 items
MinQuizLen == 5
MaxQuizLen == 10
\* models.py:8  options: min_length=4, max_length=4
NumOptions == 4
\* llm_quiz_generator.py:146  article_text[:18000]
MaxArticleLen == 18000
\* cache_manager.py:48  timedelta(days=7); the clock counts days
RecentDays == 7

Procs == 1 .. NumProcs

\* ------------------------------------------------------------ sequences

RECURSIVE LStrip(_)
\* str.lstrip(): drop leading whitespace
LStrip(s) == IF s # <<>> /\ Head(s) = "SP" THEN LStrip(Tail(s)) ELSE s

RECURSIVE RStrip(_)
\* str.rstrip(): drop trailing whitespace
RStrip(s) ==
    IF s # <<>> /\ s[Len(s)] = "SP" THEN RStrip(SubSeq(s, 1, Len(s) - 1)) ELSE s

\* a strip that removes nothing
StripNothing(s) == s

\* str.strip()
Strip(s) == LStrip(RStrip(s))

\* str.startswith(prefix)
StartsWith(s, prefix) ==
    Len(s) >= Len(prefix) /\ SubSeq(s, 1, Len(prefix)) = prefix

RECURSIVE Replace(_, _, _)
\* str.replace(old, new): every non-overlapping occurrence, left to right
Replace(s, old, new) ==
    IF s = <<>> THEN <<>>
    ELSE IF StartsWith(s, old)
         THEN new \o Replace(SubSeq(s, Len(old) + 1, Len(s)), old, new)
         ELSE <<Head(s)>> \o Replace(Tail(s), old, new)

\* ------------------------------------------------------------------ URLs

UrlA == <<"https://", "en.wikipedia.org", "/wiki/A">>
UrlAPadded == <<"SP">> \o UrlA \o <<"SP">>
UrlHttp == <<"http://", "en.wikipedia.org", "/wiki/A">>
UrlFtp == <<"ftp://", "en.wikipedia.org", "/wiki/A">>

\* the request bodies a client may post
InputUrls == {UrlA, UrlAPadded, UrlHttp, UrlFtp}

\* the same article written with another letter case, with a trailing slash
\* and with a fragment, and a page that is not a Wikipedia article
UrlLower == <<"https://", "en.wikipedia.org", "/wiki/a">>
UrlSlash == UrlA \o <<"/">>
UrlFragment == UrlA \o <<"#f">>
UrlOther == <<"https://", "example.org", "/A">>

\* main.py:53  "wikipedia.org/wiki/" in url: a piece that ends with
\* wikipedia.org followed by a piece that begins with /wiki/
IsWikiArticle(url) ==
    \E i \in 1 .. Len(url) - 1 :
        /\ url[i] \in {"en.wikipedia.org", "m.wikipedia.org"}
        /\ url[i + 1] \in {"/wiki/A", "/wiki/a"}

\* main.py:82  url.startswith("http://") or url.startswith("https://")
IsHttpUrl(url) == StartsWith(url, <<"http://">>) \/ StartsWith(url, <<"https://">>)

\* scraper.py:71
MobileUrl(url) ==
    Replace(url, <<"https://", "en.wikipedia.org">>, <<"https://", "m.wikipedia.org">>)

\* ------------------------------------------------------------ the scraper

\* HTTP statuses the article source answers with; 0 stands for a transport
\* failure (no response: timeout, connection error), which requests raises
\* as an exception that is not an HTTPError
Statuses == {200, 403, 429, 404, 503, 0}

NoHtml == [ua |-> "none", url |-> <<>>, h1 |-> <<>>, content |-> FALSE, len |-> 0]

\* what a served document may look like: with or without a heading and a
\* content region, with paragraphs of some total length
PageShapes ==
    { [h1 |-> <<"A">>, content |-> TRUE, len |-> MinTextLen - 1],
      [h1 |-> <<"A">>, content |-> TRUE, len |-> MinTextLen],
      [h1 |-> <<"A">>, content |-> TRUE, len |-> MaxArticleLen],
      [h1 |-> <<"A">>, content |-> TRUE, len |-> MaxArticleLen + 1],
      [h1 |-> <<"">>, content |-> TRUE, len |-> MinTextLen],
      [h1 |-> <<>>, content |-> FALSE, len |-> MinTextLen] }

\* the document served for a request
Page(u, ua, shape) ==
    [ua |-> ua, url |-> u, h1 |-> shape.h1, content |-> shape.content, len |-> shape.len]

\* scraper.py:30-55  _extract(html) -> (title, text)
Extract(html) ==
    LET title_text == IF html.h1 # <<>> THEN html.h1[1] ELSE "Untitled"
    IN  IF ~html.content THEN <<title_text, 0>> ELSE <<title_text, html.len>>

\* requests.Response.raise_for_status(): 4xx and 5xx raise HTTPError
RaisesHTTPError(status) == status >= 400 /\ status < 600

\* a retry after every HTTP error
IsBlockedStatusAny(status) == status >= 400

\* scraper.py:70  status in (403, 429)
IsBlockedStatus(status) == status \in {403, 429}

\* -------------------------------------------------------- the schema

\* difficulty labels as ASCII codes
Easy == <<101, 97, 115, 121>>
Medium == <<109, 101, 100, 105, 117, 109>>
Hard == <<104, 97, 114, 100>>
EasyCapital == <<69, 97, 115, 121>>
Expert == <<101, 120, 112, 101, 114, 116>>

\* models.py:4  Difficulty = Literal["easy", "medium", "hard"]
Difficulty == {Easy, Medium, Hard}

\* str.lower() on ASCII
Lower(s) == [i \in DOMAIN s |-> IF s[i] >= 65 /\ s[i] <= 90 THEN s[i] + 32 ELSE s[i]]

\* models.py:6-11  the fields of QuizItem, all required
ItemKeys == {"question", "options", "answer", "difficulty", "explanation"}

\* models.py:18-25  the fields of QuizOutput, all required
OutputKeys ==
    {"url", "title", "summary", "key_entities", "sections", "quiz", "related_topics"}

\* models.py:6-11  QuizItem validation: the locations that fail
ItemErrors(q, i) ==
    { <<"quiz", i, k>> : k \in ItemKeys \ DOMAIN q }
    \cup (IF "options" \in DOMAIN q /\ Len(q.options) # NumOptions
          THEN {<<"quiz", i, "options">>} ELSE {})
    \cup (IF "difficulty" \in DOMAIN q /\ q.difficulty \notin Difficulty
          THEN {<<"quiz", i, "difficulty">>} ELSE {})

\* models.py:18-25  QuizOutput.model_validate(data): the locations that fail
\* (quiz is List[QuizItem], with no length constraint)
ValidationErrors(data) ==
    { <<k>> : k \in OutputKeys \ DOMAIN data }
    \cup (IF "quiz" \in DOMAIN data
          THEN UNION { ItemErrors(data.quiz[i], i) : i \in DOMAIN data.quiz }
          ELSE {})

\* ------------------------------------------------ what the backend returns

BackendUrl == <<"https://", "example.org">>

Item(d, n) ==
    [question |-> "q", options |-> [i \in 1 .. n |-> "o"], answer |-> "o",
     difficulty |-> d, explanation |-> "e"]

Labels == <<Easy, Medium, Hard>>

\* a quiz of k well-formed items
Quiz(k) == [i \in 1 .. k |-> Item(Labels[((i - 1) % 3) + 1], NumOptions)]

Payload(title, quiz) ==
    [url |-> BackendUrl, title |-> title, summary |-> "s",
     key_entities |-> [people |-> <<>>, organizations |-> <<>>, locations |-> <<>>],
     sections |-> <<"s1">>, quiz |-> quiz, related_topics |-> <<"t">>]

\* the JSON documents the backend may put between braces, by name
Payloads ==
    [ P_ok      |-> Payload("B", Quiz(MinQuizLen)),
      P_notitle |-> Payload("", Quiz(MinQuizLen)),
      P_short   |-> Payload("B", Quiz(MinQuizLen - 1)),
      P_long    |-> Payload("B", Quiz(MaxQuizLen + 1)),
      P_opts3   |-> Payload("B", [Quiz(MinQuizLen) EXCEPT ![2] = Item(Easy, NumOptions - 1)]),
      P_Easy    |-> Payload("B", [Quiz(MinQuizLen) EXCEPT ![1] = Item(EasyCapital, NumOptions)]),
      P_expert  |-> Payload("B", [Quiz(MinQuizLen) EXCEPT ![3] = Item(Expert, NumOptions)]),
      P_rev     |-> Payload("B", Quiz(MinQuizLen)),
      P_nosum   |-> [url |-> BackendUrl, title |-> "B",
                     key_entities |-> [people |-> <<>>, organizations |-> <<>>, locations |-> <<>>],
                     sections |-> <<"s1">>, quiz |-> Quiz(MinQuizLen), related_topics |-> <<"t">>] ]

Bare(p) == <<"{", p, "}">>

\* the response texts of the backend: a document alone, fenced, inside prose,
\* or no document at all
ReplyTexts ==
    { Bare(p) : p \in DOMAIN Payloads }
    \cup { <<"FENCE", "json", "SP">> \o Bare("P_ok") \o <<"SP", "FENCE">>,
           <<"prose">> \o Bare("P_notitle") \o <<"prose">>,
           <<"prose">>,
           <<"SP">>,
           <<"{", "garbage", "}">> }

\* one generate_content call: it raises, or it returns a response with text
Replies ==
    { [exc |-> "", text |-> t] : t \in ReplyTexts }
    \cup { [exc |-> "DeadlineExceeded", text |-> <<>>] }

\* -------------------------------------------------------- the synthesizer

RECURSIVE LStripCh(_, _)
LStripCh(s, ch) == IF s # <<>> /\ Head(s) = ch THEN LStripCh(Tail(s), ch) ELSE s

RECURSIVE RStripCh(_, _)
RStripCh(s, ch) ==
    IF s # <<>> /\ s[Len(s)] = ch THEN RStripCh(SubSeq(s, 1, Len(s) - 1), ch) ELSE s

\* str.find / str.rfind of a one-token needle; 0 when absent
Find(s, ch) ==
    IF \E i \in DOMAIN s : s[i] = ch
    THEN CHOOSE i \in DOMAIN s : s[i] = ch /\ \A j \in 1 .. (i - 1) : s[j] # ch
    ELSE 0

RFind(s, ch) ==
    IF \E i \in DOMAIN s : s[i] = ch
    THEN CHOOSE i \in DOMAIN s : s[i] = ch /\ \A j \in (i + 1) .. Len(s) : s[j] # ch
    ELSE 0

\* llm_quiz_generator.py:112-125  _clean_json_text
CleanJsonText(raw) ==
    LET t0 == Strip(raw)
        t1 == IF StartsWith(t0, <<"FENCE">>)
              THEN LET u == RStripCh(LStripCh(Strip(t0), "FENCE"), "FENCE")
                   IN  IF StartsWith(u, <<"json">>) THEN LStrip(Tail(u)) ELSE u
              ELSE t0
        s1 == Strip(t1)
        start == Find(t1, "{")
        end == RFind(t1, "}")
    IN  IF t0 = <<>> THEN t0
        ELSE IF t1 # <<>> /\ ~(StartsWith(s1, <<"{">>) /\ s1[Len(s1)] = "}")
                 /\ start # 0 /\ end # 0 /\ end > start
             THEN SubSeq(t1, start, end)
             ELSE t1

\* json.loads: one object, surrounding whitespace allowed
JsonParses(text) ==
    LET s == Strip(text)
    IN  Len(s) = 3 /\ s[1] = "{" /\ s[3] = "}" /\ s[2] \in DOMAIN Payloads

JsonLoads(text) == Payloads[Strip(text)[2]]

\* the keys of a document in the order of the prompt's schema
\* (llm_quiz_generator.py:44-64)
SchemaOrder ==
    <<"url", "title", "summary", "key_entities", "sections", "quiz", "related_topics">>

Reverse(s) == [i \in DOMAIN s |-> s[Len(s) + 1 - i]]

\* json.loads builds a dict, which keeps the keys in the order of the text:
\* the document P_rev is written in the reverse of the schema's order, the
\* others in the schema's order
JsonKeys(text) ==
    LET name == Strip(text)[2]
        Present(k) == k \in DOMAIN Payloads[name]
    IN  IF name = "P_rev" THEN Reverse(SchemaOrder) ELSE SelectSeq(SchemaOrder, Present)

NoData == <<>>
NoDiag == <<>>

\* llm_quiz_generator.py:137-139  lower-case every quiz item's difficulty
LowerDifficulties(data) ==
    IF "quiz" \in DOMAIN data
    THEN [data EXCEPT !.quiz =
            [i \in DOMAIN data.quiz |->
                IF "difficulty" \in DOMAIN data.quiz[i]
                THEN [data.quiz[i] EXCEPT !.difficulty = Lower(data.quiz[i].difficulty)]
                ELSE data.quiz[i]]]
    ELSE data

\* llm_quiz_generator.py:127-143  _try_once, given what generate_content did
TryOnce(reply) ==
    LET text == CleanJsonText(reply.text)
        data == JsonLoads(text)
        lowered == LowerDifficulties(data)
    IN  IF reply.exc # ""
        THEN [ok |-> FALSE, data |-> NoData, diag |-> <<reply.exc>>]
        ELSE IF text = <<>>
        THEN [ok |-> FALSE, data |-> NoData, diag |-> <<"Empty model response">>]
        ELSE IF ~JsonParses(text)
        THEN [ok |-> FALSE, data |-> NoData, diag |-> <<"JSONDecodeError", text>>]
        ELSE IF ValidationErrors(data) # {}
        THEN [ok |-> FALSE, data |-> NoData,
              diag |-> <<"ValidationError", ValidationErrors(data)>>]
        ELSE IF ValidationErrors(lowered) # {}
        THEN [ok |-> FALSE, data |-> NoData,
              diag |-> <<"ValidationError", ValidationErrors(lowered)>>]
        ELSE [ok |-> TRUE, data |-> lowered, diag |-> NoDiag]

\* the caller's title first, the backend's only when the caller has none
FinalizeCallerFirst(data, u, title) ==
    [data EXCEPT !.url = u, !.title = IF title # "" THEN title ELSE data.title]

\* llm_quiz_generator.py:152-153, 159-160  url and title of a successful result
Finalize(data, u, title) ==
    [data EXCEPT !.url = u, !.title = IF data.title # "" THEN data.title ELSE title]

\* ------------------------------------------------------- model selection

Capable(m) == "generateContent" \in m.methods

\* the last path segment of a model name: n.split("/")[-1]
Simple(name) == name[Len(name)]

ModelsPrefixed(id) == <<<<"models">>, id>>

\* llm_quiz_generator.py:98-101
Preferences == << <<"gemini", "1.5", "flash">>, <<"gemini", "1.5", "flash", "8b">> >>

NoModel == <<>>

\* llm_quiz_generator.py:108  "flash" in s: a word of the name contains it
HasFlash(simple) == \E j \in DOMAIN simple : simple[j] \in {"flash", "superflash"}

\* llm_quiz_generator.py:77-110  _pick_model; NoModel when it raises.
\* A model name is its sequence of path segments, a segment its sequence of
\* dash-separated words; desired is <<>> when GEMINI_MODEL is unset.
PickModel(models, desired) ==
    LET gen_models == SelectSeq(models, Capable)
        names == [i \in DOMAIN gen_models |-> gen_models[i].name]
        simple == [i \in DOMAIN names |-> Simple(names[i])]
        InSimple(x) == \E i \in DOMAIN simple : simple[i] = x
        prefs == { i \in DOMAIN Preferences : InSimple(Preferences[i]) }
        flash == { i \in DOMAIN simple : HasFlash(simple[i]) }
        Min(S) == CHOOSE i \in S : \A j \in S : i <= j
    IN  IF gen_models = <<>> THEN NoModel
        ELSE IF desired # <<>> /\ Len(desired) = 1 /\ InSimple(desired[1])
        THEN ModelsPrefixed(desired[1])
        ELSE IF desired # <<>> /\ Len(desired) > 1 /\ desired[1] = <<"models">>
                /\ InSimple(Simple(desired))
        THEN desired
        ELSE IF prefs # {} THEN ModelsPrefixed(Preferences[Min(prefs)])
        ELSE IF flash # {} THEN ModelsPrefixed(simple[Min(flash)])
        ELSE names[1]

\* what list_models may answer for this API key
ModelListings ==
    { << [name |-> <<<<"models">>, <<"embedding", "001">>>>, methods |-> {"embedContent"}] >>,
      << [name |-> <<<<"models">>, <<"gemini", "pro">>>>, methods |-> {"generateContent"}],
         [name |-> <<<<"models">>, <<"gemini", "1.5", "flash">>>>, methods |-> {"generateContent"}] >> }

\* the GEMINI_MODEL setting of the deployment: unset
GeminiModelEnv == <<>>

\* the models a listing may hold: capable ones with a plain, a preferred and
\* a fast-tier name, and ones that cannot generate
ModelPool ==
    { [name |-> ModelsPrefixed(id), methods |-> {"generateContent"}] :
        id \in { <<"gemini", "pro">>, <<"gemini", "1.5", "flash">>,
                 <<"gemini", "1.5", "flash", "8b">>, <<"gemini", "2.0", "superflash">> } }
    \cup
    { [name |-> ModelsPrefixed(id), methods |-> {"embedContent"}] :
        id \in { <<"embedding", "001">>, <<"gemini", "1.5", "flash">> } }

\* the listings of up to MaxListing models of the pool, no name twice
PoolListings ==
    { l \in UNION { [1 .. n -> ModelPool] : n \in 0 .. MaxListing } :
        \A i, j \in DOMAIN l : l[i].name = l[j].name => i = j }

\* settings of GEMINI_MODEL: unset, a plain identifier, a full name, a name
\* with a longer path, an identifier that is not listed or cannot generate
OverrideSettings ==
    { <<>>,
      << <<"gemini", "pro">> >>,
      ModelsPrefixed(<<"gemini", "pro">>),
      << <<"models">>, <<"x">>, <<"gemini", "pro">> >>,
      << <<"tunedModels">>, <<"gemini", "pro">> >>,
      << <<"gemini", "ultra">> >>,
      << <<"embedding", "001">> >> }

\* ------------------------------------------------------------ the store

\* datetime.isoformat()
IsoFormat(t) == <<"iso", t>>

\* a serializer that loses the quiz list
JsonDumpsLossy(d, order) ==
    LET Present(k) == k \in DOMAIN d /\ k # "quiz"
        keys == SelectSeq(order, Present)
    IN  [i \in DOMAIN keys |-> <<keys[i], IF keys[i] = "title" THEN "" ELSE d[keys[i]]>>]

\* main.py:122  json.dumps(result): the document as its key/value pairs, in
\* the order of the keys of the dict
JsonDumps(d, order) ==
    LET Present(k) == k \in DOMAIN d
        keys == SelectSeq(order, Present)
    IN  [i \in DOMAIN keys |-> <<keys[i], d[keys[i]]>>]

\* cache_manager.py:26  json.loads(quiz.full_quiz_data)
JsonLoadsDoc(doc) ==
    [k \in { doc[i][1] : i \in DOMAIN doc } |->
        doc[CHOOSE i \in DOMAIN doc : doc[i][1] = k][2]]

\* a lookup that returns the stored document without marking it
CheckCacheUnmarked(table, u) ==
    LET key == Strip(u)
        hits == { i \in DOMAIN table : table[i].url = key }
        quiz == table[CHOOSE i \in hits : \A j \in hits : i <= j]
    IN  IF hits = {} THEN <<>>
        ELSE << ("id" :> quiz.id) @@ JsonLoadsDoc(quiz.full_quiz_data) >>

\* cache_manager.py:12-33  check_cache: <<>> for None, else <<data>>
CheckCache(table, u) ==
    LET key == Strip(u)
        hits == { i \in DOMAIN table : table[i].url = key }
        quiz == table[CHOOSE i \in hits : \A j \in hits : i <= j]
    IN  IF hits = {} THEN <<>>
        ELSE << ("id" :> quiz.id) @@ ("cached" :> TRUE)
                @@ ("date_generated" :> IsoFormat(quiz.date_generated))
                @@ JsonLoadsDoc(quiz.full_quiz_data) >>

\* ------------------------------------------------------------ the state

VARIABLES
    rows,       \* the quizzes table, in insertion order
    nextId,     \* the next value of the id sequence of the table
    now,        \* the wall clock (datetime.utcnow)
    pc,         \* per request: where its handler stands
    body,       \* per request: the posted url
    url,        \* per request: main.py:81  body.url.strip()
    scrape,     \* per request: what scrape_wikipedia did
    synth,      \* per request: what generate_quiz did
    persist,    \* per request: what its database calls gave
    out,        \* per request: the HTTP response
    before      \* per request: the requests that had ended when it arrived

vars == <<rows, nextId, now, pc, body, url, scrape, synth, persist, out, before>>

NoExc == [type |-> "", code |-> 0]

\* scrape_wikipedia before its first request
Scrape0 == [requests |-> <<>>, html |-> NoHtml, raised |-> NoExc]

\* a request _fetch sent, with the status it got
Request(u, ua, status) == [url |-> u, ua |-> ua, status |-> status]

\* generate_quiz before its first attempt
Synth0 ==
    [prompts |-> <<>>, model |-> NoModel, first |-> NoDiag, reply |-> <<>>,
     raised |-> <<>>, result |-> NoData,
     keys |-> <<>>, listed |-> 0, listing |-> <<>>, desired |-> <<>>, used |-> <<>>]

\* the handler before its database calls
Persist0 == [conflict |-> FALSE, id |-> 0, total |-> 0]

NoOut == [status |-> 0, detail |-> <<>>, data |-> <<>>]

Ok(data) == [status |-> 200, detail |-> <<>>, data |-> <<data>>]

\* fastapi.HTTPException(status_code, detail)
HTTPException(status, detail) == [status |-> status, detail |-> detail, data |-> <<>>]

\* an exception no handler catches: the framework answers 500
Unhandled == [status |-> 500, detail |-> <<"Internal Server Error">>, data |-> <<>>]

Init ==
    /\ rows = <<>>
    /\ nextId = 1
    /\ now = 0
    /\ pc = [p \in Procs |-> "idle"]
    /\ body = [p \in Procs |-> <<>>]
    /\ url = [p \in Procs |-> <<>>]
    /\ scrape = [p \in Procs |-> Scrape0]
    /\ synth = [p \in Procs |-> Synth0]
    /\ persist = [p \in Procs |-> Persist0]
    /\ out = [p \in Procs |-> NoOut]
    /\ before = [p \in Procs |-> {}]

\* the handler of p returns (or raises) with response r
Respond(p, r) ==
    /\ pc' = [pc EXCEPT ![p] = "done"]
    /\ out' = [out EXCEPT ![p] = r]

\* where the handler of a request stands once it has returned or raised
EndedAt == {"done", "previewed", "listed", "shown", "counted"}

\* the request of p arrives: the requests that have ended by then
Arrived(p) ==
    before' = [before EXCEPT ![p] = { q \in Procs : pc[q] \in EndedAt }]

\* main.py:75-92  the request arrives: strip, check the scheme, look up
Start(p, E) ==
    /\ pc[p] = "idle"
    /\ \E b \in E.urls :
        LET u == Strip(b)
            cached == CheckCache(rows, u)
        IN  /\ body' = [body EXCEPT ![p] = b]
            /\ url' = [url EXCEPT ![p] = u]
            /\ Arrived(p)
            /\ IF ~IsHttpUrl(u)
               THEN Respond(p, HTTPException(400, <<"Invalid URL">>))
               ELSE IF cached # <<>>
               THEN Respond(p, Ok(cached[1]))
               ELSE /\ pc' = [pc EXCEPT ![p] = "fetch"]
                    /\ out' = out
    /\ UNCHANGED <<rows, nextId, now, scrape, synth, persist>>

\* no gate at all
TooShortNever(text) == FALSE

\* a gate that also rejects the minimum length
TooShortInclusive(text) == text = 0 \/ text <= MinTextLen

\* main.py:106-107  the length gate on the extracted text
TooShort(text) == text = 0 \/ text < MinTextLen

\* scraper.py:76-77 and main.py:96, 106-107: the fetch returned html
Scraped(p, sc, html) ==
    /\ scrape' = [scrape EXCEPT ![p] = [sc EXCEPT !.html = html]]
    /\ IF TooShort(Extract(html)[2])
       THEN Respond(p, HTTPException(422, <<"Could not extract sufficient article text">>))
       ELSE /\ pc' = [pc EXCEPT ![p] = "synth"]
            /\ out' = out

\* main.py:97-104  the handler's answer to an exception of scrape_wikipedia
ScrapeFailure(exc) ==
    IF exc.type = "HTTPError" /\ exc.code \in {403, 429}
    THEN HTTPException(422, <<"Wikipedia blocked the request (403/429)">>)
    ELSE Unhandled

\* scraper.py:24-27  what _fetch raises for a status; NoExc when it returns
FetchExc(status) ==
    IF status = 0 THEN [type |-> "ConnectionError", code |-> 0]
    ELSE IF RaisesHTTPError(status) THEN [type |-> "HTTPError", code |-> status]
    ELSE NoExc

\* scrape_wikipedia raised exc
ScrapeRaised(p, sc, exc) ==
    /\ scrape' = [scrape EXCEPT ![p] = [sc EXCEPT !.raised = exc]]
    /\ Respond(p, ScrapeFailure(exc))

\* scraper.py:65-74  the desktop request and what follows from its status
FetchDesktop(p, E) ==
    /\ pc[p] = "fetch"
    /\ \E status \in E.statuses :
        LET sc == [scrape[p] EXCEPT
                        !.requests = Append(@, Request(url[p], "desktop", status))]
            exc == FetchExc(status)
        IN  IF exc = NoExc
            THEN \E shape \in E.shapes : Scraped(p, sc, Page(url[p], "desktop", shape))
            ELSE IF exc.type = "HTTPError" /\ IsBlockedStatus(exc.code)
            THEN /\ scrape' = [scrape EXCEPT ![p] = sc]
                 /\ pc' = [pc EXCEPT ![p] = "mobile"]
                 /\ out' = out
            ELSE ScrapeRaised(p, sc, exc)
    /\ UNCHANGED <<rows, nextId, now, body, url, synth, persist, before>>

\* scraper.py:71-72  the retry on the mobile host with the mobile identity
FetchMobile(p, E) ==
    /\ pc[p] = "mobile"
    /\ \E status \in E.statuses :
        LET mobile_url == MobileUrl(url[p])
            sc == [scrape[p] EXCEPT
                        !.requests = Append(@, Request(mobile_url, "mobile", status))]
            exc == FetchExc(status)
        IN  IF exc = NoExc
            THEN \E shape \in E.shapes : Scraped(p, sc, Page(mobile_url, "mobile", shape))
            ELSE ScrapeRaised(p, sc, exc)
    /\ UNCHANGED <<rows, nextId, now, body, url, synth, persist, before>>

\* the last MaxArticleLen characters instead of the first
TruncateTail(text) ==
    IF text > MaxArticleLen
    THEN [from |-> text - MaxArticleLen, len |-> MaxArticleLen]
    ELSE [from |-> 0, len |-> text]

\* llm_quiz_generator.py:146  article_text[:18000]: the slice of a text of
\* the given length, as the offset of its first character and its length
Truncate(text) ==
    [from |-> 0, len |-> IF text > MaxArticleLen THEN MaxArticleLen ELSE text]

\* llm_quiz_generator.py:147  PROMPT_TEMPLATE.format(url, title, article_text)
Prompt(u, title, text) == [url |-> u, title |-> title, text |-> text, reminder |-> FALSE]

\* a second attempt that repeats the first prompt
NudgeNothing(prompt) == prompt

\* llm_quiz_generator.py:156  prompt + "REMINDER: Return ONLY pure JSON ..."
Nudge(prompt) == [prompt EXCEPT !.reminder = TRUE]

\* the diagnostic of the first attempt instead of the last
LastErrorFirst(ok2, result2, result) == result

\* llm_quiz_generator.py:163  the diagnostic in the RuntimeError of generate_quiz
LastError(ok2, result2, result) == IF ~ok2 THEN result2 ELSE result

\* main.py:111-112  generate_quiz raised e
SynthFailure(e) == HTTPException(500, <<"LLM generation failed", e>>)

\* generate_quiz raised e
SynthRaised(p, sy, e) ==
    /\ synth' = [synth EXCEPT ![p] = [sy EXCEPT !.raised = e]]
    /\ Respond(p, SynthFailure(e))

\* generate_quiz returned data
SynthReturned(p, sy, data) ==
    /\ synth' = [synth EXCEPT ![p] =
            [sy EXCEPT !.result = Finalize(data, url[p], Extract(scrape[p].html)[1]),
                       !.keys = JsonKeys(CleanJsonText(sy.reply.text))]]
    /\ pc' = [pc EXCEPT ![p] = "insert"]
    /\ out' = out

\* main.py:110 and llm_quiz_generator.py:145-149, 83-110: generate_quiz is
\* called; _pick_model asks the backend for its models and chooses one
ListModels(p, E) ==
    /\ pc[p] = "synth"
    /\ \E listing \in E.listings, desired \in E.overrides :
        LET model_name == PickModel(listing, desired)
            picked == [synth[p] EXCEPT !.listed = @ + 1,
                                       !.listing = listing,
                                       !.desired = desired,
                                       !.model = model_name]
        IN  IF model_name = NoModel
            THEN SynthRaised(p, picked, <<"No Gemini models with generateContent">>)
            ELSE /\ synth' = [synth EXCEPT ![p] = picked]
                 /\ pc' = [pc EXCEPT ![p] = "attempt"]
                 /\ out' = out
    /\ UNCHANGED <<rows, nextId, now, body, url, scrape, persist, before>>

\* llm_quiz_generator.py:146-147, 150-154: the first attempt, with the
\* prompt of the truncated text
Attempt1(p, E) ==
    /\ pc[p] = "attempt"
    /\ \E reply \in E.replies :
        LET title == Extract(scrape[p].html)[1]
            text == Extract(scrape[p].html)[2]
            prompt == Prompt(url[p], title, Truncate(text))
            r == TryOnce(reply)
            sy == [synth[p] EXCEPT !.prompts = Append(@, prompt),
                                   !.used = Append(@, synth[p].model),
                                   !.reply = reply,
                                   !.first = r.diag]
        IN  IF r.ok
            THEN SynthReturned(p, sy, r.data)
            ELSE /\ synth' = [synth EXCEPT ![p] = sy]
                 /\ pc' = [pc EXCEPT ![p] = "retry"]
                 /\ out' = out
    /\ UNCHANGED <<rows, nextId, now, body, url, scrape, persist, before>>

\* llm_quiz_generator.py:156-163  the second attempt, with the reminder
Attempt2(p, E) ==
    /\ pc[p] = "retry"
    /\ \E reply \in E.replies :
        LET r == TryOnce(reply)
            sy == [synth[p] EXCEPT !.prompts = Append(@, Nudge(@[1])),
                                   !.used = Append(@, synth[p].model),
                                   !.reply = reply]
        IN  IF r.ok
            THEN SynthReturned(p, sy, r.data)
            ELSE SynthRaised(p, sy,
                    <<"Model failed", sy.model, LastError(r.ok, r.diag, sy.first)>>)
    /\ UNCHANGED <<rows, nextId, now, body, url, scrape, persist, before>>

\* a table without the unique constraint on url
ConflictsNever(table, u) == FALSE

\* database.py:23  url is unique: the insert of a row with this url conflicts
Conflicts(table, u) == \E i \in DOMAIN table : table[i].url = u

\* main.py:117-123  the Quiz row of a result, with the defaults of database.py:22-25
Record(id, u, result, keys, title, text, html, date) ==
    [id |-> id, url |-> u,
     title |-> IF "title" \in DOMAIN result THEN result.title ELSE title,
     date_generated |-> date, scraped_content |-> text, raw_html |-> html,
     full_quiz_data |-> JsonDumps(result, keys)]

\* an insert that overwrites the row of the url instead of failing
InsertOverwrites(p) ==
    /\ pc[p] = "insert"
    /\ LET result == synth[p].result
           title == Extract(scrape[p].html)[1]
           text == Extract(scrape[p].html)[2]
           record == Record(nextId, url[p], result, synth[p].keys, title, text, scrape[p].html, now)
       IN  /\ rows' = IF Conflicts(rows, url[p])
                      THEN [i \in DOMAIN rows |->
                                IF rows[i].url = url[p] THEN record ELSE rows[i]]
                      ELSE Append(rows, record)
           /\ nextId' = nextId + 1
           /\ persist' = [persist EXCEPT ![p].id = record.id]
           /\ pc' = [pc EXCEPT ![p] = "refresh"]
           /\ out' = out
    /\ UNCHANGED <<now, body, url, scrape, synth, before>>

\* main.py:115-125, 131-133  add and commit: the row is stored, or the unique
\* constraint raises IntegrityError and the session is rolled back.  A
\* sequence-backed id may be consumed by the failed insert.
Insert(p) ==
    /\ pc[p] = "insert"
    /\ LET result == synth[p].result
           title == Extract(scrape[p].html)[1]
           text == Extract(scrape[p].html)[2]
           record == Record(nextId, url[p], result, synth[p].keys, title, text, scrape[p].html, now)
       IN  IF Conflicts(rows, url[p])
           THEN /\ nextId' \in {nextId, nextId + 1}
                /\ persist' = [persist EXCEPT ![p].conflict = TRUE]
                /\ pc' = [pc EXCEPT ![p] = "relookup"]
                /\ UNCHANGED <<rows, out>>
           ELSE /\ rows' = Append(rows, record)
                /\ nextId' = nextId + 1
                /\ persist' = [persist EXCEPT ![p].id = record.id]
                /\ pc' = [pc EXCEPT ![p] = "refresh"]
                /\ out' = out
    /\ UNCHANGED <<now, body, url, scrape, synth, before>>

\* main.py:126-130  db.refresh(record) reads the stored row by its id; the
\* answer is the result with that id and cached = False
Refresh(p) ==
    /\ pc[p] = "refresh"
    /\ LET stored == { i \in DOMAIN rows : rows[i].id = persist[p].id }
           record == rows[CHOOSE i \in stored : TRUE]
       IN  Respond(p, Ok(("id" :> record.id) @@ ("cached" :> FALSE) @@ synth[p].result))
    /\ UNCHANGED <<rows, nextId, now, body, url, scrape, synth, persist, before>>

\* a handler that gives up on IntegrityError
RelookupFails(p) ==
    /\ pc[p] = "relookup"
    /\ Respond(p, HTTPException(500, <<"Database error">>))
    /\ UNCHANGED <<rows, nextId, now, body, url, scrape, synth, persist, before>>

\* a handler that answers a conflict as if it had stored the row itself
RelookupUncached(p) ==
    /\ pc[p] = "relookup"
    /\ LET cached == CheckCache(rows, url[p])
       IN  IF cached # <<>>
           THEN Respond(p, Ok([cached[1] EXCEPT !["cached"] = FALSE]))
           ELSE Respond(p, HTTPException(500, <<"Database error">>))
    /\ UNCHANGED <<rows, nextId, now, body, url, scrape, synth, persist, before>>

\* main.py:134-137  after the rollback: look the url up again
Relookup(p) ==
    /\ pc[p] = "relookup"
    /\ LET cached == CheckCache(rows, url[p])
       IN  IF cached # <<>>
           THEN Respond(p, Ok(cached[1]))
           ELSE Respond(p, HTTPException(500, <<"Database error">>))
    /\ UNCHANGED <<rows, nextId, now, body, url, scrape, synth, persist, before>>

\* time passes
Tick ==
    /\ now < MaxClock
    /\ now' = now + 1
    /\ UNCHANGED <<rows, nextId, pc, body, url, scrape, synth, persist, out, before>>

\* --------------------------------------------------- the reading handlers

\* main.py:63-72  the preview's answer to an exception of scrape_wikipedia
PreviewFailure(exc) ==
    IF exc.type = "HTTPError" /\ exc.code \in {403, 429}
    THEN HTTPException(422, <<"Wikipedia blocked the request. Please retry in a minute.">>)
    ELSE IF exc.type = "HTTPError"
    THEN HTTPException(422, <<"Failed to fetch article">>)
    ELSE HTTPException(422, <<"Error", exc.type>>)

\* the reading handler of p returns (or raises) with response r
Served(p, kind, r) ==
    /\ pc' = [pc EXCEPT ![p] = kind]
    /\ out' = [out EXCEPT ![p] = r]

\* scraper.py:76-77 and main.py:57-61  scrape_wikipedia returned html to the
\* preview
Previewed(p, sc, html) ==
    /\ scrape' = [scrape EXCEPT ![p] = [sc EXCEPT !.html = html]]
    /\ Served(p, "previewed",
            Ok([url |-> url[p], title |-> Extract(html)[1], valid |-> TRUE]))

\* scrape_wikipedia raised exc in the preview
PreviewRaised(p, sc, exc) ==
    /\ scrape' = [scrape EXCEPT ![p] = [sc EXCEPT !.raised = exc]]
    /\ Served(p, "previewed", PreviewFailure(exc))

\* main.py:43-54  preview_url is called: strip, check the scheme and the host
PreviewUrl(p, E) ==
    /\ pc[p] = "idle"
    /\ \E b \in E.previews :
        LET u == Strip(b)
        IN  /\ body' = [body EXCEPT ![p] = b]
            /\ url' = [url EXCEPT ![p] = u]
            /\ IF ~IsHttpUrl(u)
               THEN Served(p, "previewed", HTTPException(400, <<"Invalid URL">>))
               ELSE IF ~IsWikiArticle(u)
               THEN Served(p, "previewed",
                        HTTPException(400, <<"URL must be a Wikipedia article">>))
               ELSE /\ pc' = [pc EXCEPT ![p] = "preview"]
                    /\ out' = out
    /\ Arrived(p)
    /\ UNCHANGED <<rows, nextId, now, scrape, synth, persist>>

\* main.py:57 and scraper.py:65-70  the desktop request of the preview
PreviewDesktop(p, E) ==
    /\ pc[p] = "preview"
    /\ \E status \in E.statuses :
        LET sc == [scrape[p] EXCEPT
                        !.requests = Append(@, Request(url[p], "desktop", status))]
            exc == FetchExc(status)
        IN  IF exc = NoExc
            THEN \E shape \in E.shapes : Previewed(p, sc, Page(url[p], "desktop", shape))
            ELSE IF exc.type = "HTTPError" /\ IsBlockedStatus(exc.code)
            THEN /\ scrape' = [scrape EXCEPT ![p] = sc]
                 /\ pc' = [pc EXCEPT ![p] = "pmobile"]
                 /\ out' = out
            ELSE PreviewRaised(p, sc, exc)
    /\ UNCHANGED <<rows, nextId, now, body, url, synth, persist, before>>

\* scraper.py:71-72 and main.py:63-72  the mobile request of the preview
PreviewMobile(p, E) ==
    /\ pc[p] = "pmobile"
    /\ \E status \in E.statuses :
        LET mobile_url == MobileUrl(url[p])
            sc == [scrape[p] EXCEPT
                        !.requests = Append(@, Request(mobile_url, "mobile", status))]
            exc == FetchExc(status)
        IN  IF exc = NoExc
            THEN \E shape \in E.shapes : Previewed(p, sc, Page(mobile_url, "mobile", shape))
            ELSE PreviewRaised(p, sc, exc)
    /\ UNCHANGED <<rows, nextId, now, body, url, synth, persist, before>>

\* main.py:147  order_by(date_generated.desc()): the orders in which the
\* rows may come back (rows of one date in any order)
HistoryOrders(table) ==
    { f \in [DOMAIN table -> DOMAIN table] :
        /\ \A i, j \in DOMAIN table : f[i] = f[j] => i = j
        /\ \A i, j \in DOMAIN table :
                i < j => table[f[i]].date_generated >= table[f[j]].date_generated }

\* main.py:148-156  one entry of the history
HistoryEntry(r) ==
    [id |-> r.id, url |-> r.url, title |-> r.title,
     date_generated |-> IsoFormat(r.date_generated)]

\* main.py:142-158  history
History(p) ==
    /\ pc[p] = "idle"
    /\ \E f \in HistoryOrders(rows) :
        Served(p, "listed", Ok([i \in DOMAIN rows |-> HistoryEntry(rows[f[i]])]))
    /\ Arrived(p)
    /\ UNCHANGED <<rows, nextId, now, body, url, scrape, synth, persist>>

\* main.py:161-174  get_quiz: the row of the id with its document, or 404
GetQuiz(p) ==
    /\ pc[p] = "idle"
    /\ \E quiz_id \in 1 .. nextId :
        LET found == { i \in DOMAIN rows : rows[i].id = quiz_id }
        IN  IF found = {}
            THEN Served(p, "shown", HTTPException(404, <<"Quiz not found">>))
            ELSE LET r == rows[CHOOSE i \in found : TRUE]
                 IN  Served(p, "shown",
                        Ok(("id" :> r.id)
                           @@ ("date_generated" :> IsoFormat(r.date_generated))
                           @@ JsonLoadsDoc(r.full_quiz_data)))
    /\ Arrived(p)
    /\ UNCHANGED <<rows, nextId, now, body, url, scrape, synth, persist>>

\* cache_manager.py:47-49  the rows generated within the last RecentDays
\* days before t
CountRecent(table, t) ==
    Cardinality({ i \in DOMAIN table : table[i].date_generated >= t - RecentDays })

\* main.py:177-181 and cache_manager.py:46  cache_stats is called;
\* get_cache_stats counts the rows
CacheStats(p) ==
    /\ pc[p] = "idle"
    /\ persist' = [persist EXCEPT ![p].total = Len(rows)]
    /\ pc' = [pc EXCEPT ![p] = "counting"]
    /\ Arrived(p)
    /\ UNCHANGED <<rows, nextId, now, body, url, scrape, synth, out>>

\* cache_manager.py:47-54  the second query counts the recent rows: of the
\* table as it is now, or, when the session reads from the snapshot of its
\* first query, of the table as it was then
CountRecentRows(p) ==
    /\ pc[p] = "counting"
    /\ \E table \in {rows, SubSeq(rows, 1, persist[p].total)} :
        Served(p, "counted",
            Ok([total_cached |-> persist[p].total, recent_week |-> CountRecent(table, now)]))
    /\ UNCHANGED <<rows, nextId, now, body, url, scrape, synth, persist, before>>

\* ------------------------------------------------------ the environment

\* everything the clients, the article source and the backend may do
World ==
    [urls |-> InputUrls, statuses |-> Statuses, shapes |-> PageShapes,
     listings |-> ModelListings, overrides |-> {GeminiModelEnv},
     replies |-> Replies,
     previews |-> InputUrls \cup {UrlOther}]

\* a part of it, for requests that run concurrently: one article (posted
\* with surrounding whitespace) and one url that is refused, a source that
\* answers, blocks or fails, a backend that sends a valid document or prose
SmallWorld ==
    [urls |-> {UrlAPadded, UrlFtp},
     statuses |-> {200, 403, 503},
     shapes |-> { sh \in PageShapes : sh.h1 = <<"A">> /\ sh.len <= MinTextLen },
     listings |-> { l \in ModelListings : PickModel(l, GeminiModelEnv) # NoModel },
     overrides |-> {GeminiModelEnv},
     replies |-> { [exc |-> "", text |-> t] :
                    t \in {Bare("P_ok"), <<"prose">>} }]

\* NumProcs concurrent requests
Next ==
    \/ \E p \in Procs : Start(p, SmallWorld)
    \/ \E p \in Procs : FetchDesktop(p, SmallWorld)
    \/ \E p \in Procs : FetchMobile(p, SmallWorld)
    \/ \E p \in Procs : ListModels(p, SmallWorld)
    \/ \E p \in Procs : Attempt1(p, SmallWorld)
    \/ \E p \in Procs : Attempt2(p, SmallWorld)
    \/ \E p \in Procs : Insert(p)
    \/ \E p \in Procs : Refresh(p)
    \/ \E p \in Procs : Relookup(p)
    \/ Tick

Spec == Init /\ [][Next]_vars

\* one request at a time, alone
NextSeq ==
    \/ Start(1, World)
    \/ FetchDesktop(1, World)
    \/ FetchMobile(1, World)
    \/ ListModels(1, World)
    \/ Attempt1(1, World)
    \/ Attempt2(1, World)
    \/ Insert(1)
    \/ Refresh(1)
    \/ PreviewUrl(1, World)
    \/ PreviewDesktop(1, World)
    \/ PreviewMobile(1, World)
    \/ History(1)
    \/ GetQuiz(1)
    \/ CacheStats(1)
    \/ CountRecentRows(1)
    \/ Tick

SpecSeq == Init /\ [][NextSeq]_vars

\* the five endpoints side by side, on one article whose url is written in
\* several ways, with a source and a backend that answer well
ApiWorld ==
    [urls |-> {UrlAPadded, UrlLower, UrlSlash, UrlFragment},
     statuses |-> {200},
     shapes |-> { sh \in PageShapes : sh.h1 = <<"A">> /\ sh.len = MinTextLen },
     listings |-> { l \in ModelListings : PickModel(l, GeminiModelEnv) # NoModel },
     overrides |-> {GeminiModelEnv},
     replies |-> { [exc |-> "", text |-> Bare("P_ok")] },
     previews |-> {UrlAPadded, UrlFtp, UrlOther}]

\* the model selection on its own: any listing, any override, a source and
\* a backend that answer well
PickWorld ==
    [urls |-> {UrlA},
     statuses |-> {200},
     shapes |-> { sh \in PageShapes : sh.h1 = <<"A">> /\ sh.len = MinTextLen },
     listings |-> PoolListings,
     overrides |-> OverrideSettings,
     replies |-> { [exc |-> "", text |-> Bare("P_ok")] },
     previews |-> {UrlA}]

NextPick ==
    \/ Start(1, PickWorld)
    \/ FetchDesktop(1, PickWorld)
    \/ ListModels(1, PickWorld)
    \/ Attempt1(1, PickWorld)

SpecPick == Init /\ [][NextPick]_vars

NextApi ==
    \/ \E p \in Procs : Start(p, ApiWorld)
    \/ \E p \in Procs : FetchDesktop(p, ApiWorld)
    \/ \E p \in Procs : ListModels(p, ApiWorld)
    \/ \E p \in Procs : Attempt1(p, ApiWorld)
    \/ \E p \in Procs : Insert(p)
    \/ \E p \in Procs : Refresh(p)
    \/ \E p \in Procs : Relookup(p)
    \/ \E p \in Procs : PreviewUrl(p, ApiWorld)
    \/ \E p \in Procs : PreviewDesktop(p, ApiWorld)
    \/ \E p \in Procs : History(p)
    \/ \E p \in Procs : GetQuiz(p)
    \/ \E p \in Procs : CacheStats(p)
    \/ \E p \in Procs : CountRecentRows(p)
    \/ Tick

SpecApi == Init /\ [][NextApi]_vars

\* ------------------------------------------------------------ the claims

\* the title and the text scrape_wikipedia returned to the handler of p
TitleOf(p) == Extract(scrape[p].html)[1]
TextOf(p) == Extract(scrape[p].html)[2]

\* the keys check_cache and the handler add to a result
MetaKeys == {"id", "cached", "date_generated"}

Answered(p) == pc[p] = "done" /\ out[p].status = 200

\* the request of p is one of preview_url
Previewing(p) == pc[p] \in {"preview", "pmobile", "previewed"}

InsufficientText == <<"Could not extract sufficient article text">>
BlockedDetail == <<"Wikipedia blocked the request (403/429)">>

\* C1: however the concurrent requests for one new url interleave, the table
\* holds one row per url, and every request whose fetch and synthesis
\* succeeded is answered with the id of the row of its url.
UniquenessUnderRace ==
    /\ \A i, j \in DOMAIN rows : rows[i].url = rows[j].url => i = j
    /\ \A p \in Procs :
        (pc[p] = "done" /\ synth[p].result # NoData) =>
            /\ out[p].status = 200
            /\ \E i \in DOMAIN rows :
                rows[i].url = url[p] /\ out[p].data[1].id = rows[i].id

\* C1 witness: all requests asked for the same new url, all missed the cache,
\* all synthesized, one inserted and the others hit the constraint.
RaceResolved ==
    /\ \A p \in Procs :
        /\ Answered(p)
        /\ url[p] = UrlA
        /\ synth[p].result # NoData
    /\ \E p \in Procs : persist[p].id # 0
    /\ \E p \in Procs : persist[p].conflict
    /\ Len(rows) = 1

\* C2: of two successive answered requests for one url, the second is a cache
\* hit with the id and, key by key, the quiz data of the first.
Idempotence ==
    \A p, q \in Procs :
        (Answered(p) /\ Answered(q) /\ p \in before[q] /\ url[p] = url[q]) =>
            LET a == out[p].data[1]
                b == out[q].data[1]
            IN  /\ b.cached = TRUE
                /\ a.id = b.id
                /\ (DOMAIN a) \ MetaKeys = (DOMAIN b) \ MetaKeys
                /\ OutputKeys \subseteq DOMAIN a
                /\ \A k \in (DOMAIN a) \ MetaKeys : a[k] = b[k]

\* C2 witness: a request generated the quiz, a later one got it from the cache.
SecondCallCached ==
    \E p, q \in Procs :
        /\ Answered(p) /\ Answered(q) /\ p \in before[q] /\ url[p] = url[q]
        /\ out[p].data[1].cached = FALSE
        /\ out[q].data[1].cached = TRUE

\* C3 (as claimed): every result of generate_quiz has 5 to 10 quiz items, each
\* with 4 options and a lower-case difficulty of the literal set.
SchemaShape ==
    \A p \in Procs :
        synth[p].result # NoData =>
            LET quiz == synth[p].result.quiz
            IN  /\ Len(quiz) >= MinQuizLen
                /\ Len(quiz) <= MaxQuizLen
                /\ \A i \in DOMAIN quiz :
                    /\ Len(quiz[i].options) = NumOptions
                    /\ quiz[i].difficulty \in Difficulty

\* C4: after a second attempt, a valid second reply is what generate_quiz
\* returns, and an invalid one makes it raise with the diagnostic of that
\* second reply, which the handler reports.
RetryOnMalformed ==
    \A p \in Procs :
        Len(synth[p].prompts) = 2 =>
            LET r2 == TryOnce(synth[p].reply)
            IN  /\ synth[p].first # NoDiag
                /\ r2.ok =>
                    /\ synth[p].raised = <<>>
                    /\ synth[p].result # NoData
                    /\ \A k \in (DOMAIN r2.data) \ {"url", "title"} :
                        synth[p].result[k] = r2.data[k]
                /\ ~r2.ok =>
                    /\ synth[p].result = NoData
                    /\ Len(synth[p].raised) = 3
                    /\ synth[p].raised[3] = r2.diag
                    /\ out[p].status = 500
                    /\ out[p].detail = <<"LLM generation failed", synth[p].raised>>

\* C4 witness: both attempts failed, with different diagnostics.
BothAttemptsFailed ==
    \E p \in Procs :
        /\ Len(synth[p].prompts) = 2
        /\ Len(synth[p].raised) = 3
        /\ synth[p].first[1] # synth[p].raised[3][1]

\* C5: whichever handler called scrape_wikipedia, the mobile request is sent
\* at most once, only after a desktop 403 or 429 and to the rewritten url;
\* any other failure of the desktop request ends the fetch and the request;
\* a mobile 200 makes the fetch return the mobile document.
FetchFallback ==
    \A p \in Procs :
        LET rq == scrape[p].requests
            mobile == { i \in DOMAIN rq : rq[i].ua = "mobile" }
        IN  /\ Cardinality(mobile) <= 1
            /\ Len(rq) <= 2
            /\ rq # <<>> => rq[1] = Request(url[p], "desktop", rq[1].status)
            /\ mobile # {} =>
                /\ mobile = {2}
                /\ rq[1].status \in {403, 429}
                /\ rq[2].url = MobileUrl(url[p])
            /\ (rq # <<>> /\ rq[1].status \notin {200, 403, 429}) =>
                /\ Len(rq) = 1
                /\ scrape[p].raised # NoExc
                /\ pc[p] \in {"done", "previewed"}
            /\ (Len(rq) = 1 /\ rq[1].status \in {403, 429}) =>
                    pc[p] \in {"mobile", "pmobile"}
            /\ (Len(rq) = 2 /\ rq[2].status = 200) =>
                /\ scrape[p].raised = NoExc
                /\ scrape[p].html.ua = "mobile"
                /\ scrape[p].html.url = rq[2].url

\* C5 witness: desktop 403, mobile 200 on the rewritten host, and the mobile
\* document went on to synthesis.
MobileFetched ==
    \E p \in Procs :
        /\ Len(scrape[p].requests) = 2
        /\ scrape[p].requests[1].status = 403
        /\ scrape[p].requests[2].status = 200
        /\ scrape[p].requests[2].url # url[p]
        /\ scrape[p].html.ua = "mobile"
        /\ synth[p].prompts # <<>>

\* C6 (as claimed): when the mobile retry gets an error status, the exception of
\* scrape_wikipedia carries the status of the desktop request, and
\* generate_quiz_endpoint reports the blocked condition.
BlockedCarriesOriginal ==
    \A p \in Procs :
        (Len(scrape[p].requests) = 2 /\ scrape[p].requests[2].status >= 400) =>
            /\ scrape[p].raised.type = "HTTPError"
            /\ scrape[p].raised.code = scrape[p].requests[1].status
            /\ ~Previewing(p) => out[p] = HTTPException(422, BlockedDetail)

\* C7: a step that changes the table appends one row, for a request whose
\* fetch returned, whose text has the minimum length and whose synthesis
\* returned a schema-valid result; a request that ends in an error leaves the
\* table as it was.
NoPartialStep ==
    /\ rows' # rows =>
        \E p \in Procs :
            /\ pc[p] = "insert"
            /\ scrape[p].raised = NoExc
            /\ scrape[p].requests # <<>>
            /\ scrape[p].requests[Len(scrape[p].requests)].status = 200
            /\ TextOf(p) >= MinTextLen
            /\ synth[p].raised = <<>>
            /\ synth[p].result # NoData
            /\ ValidationErrors(synth[p].result) = {}
            /\ Len(rows') = Len(rows) + 1
            /\ SubSeq(rows', 1, Len(rows)) = rows
            /\ rows'[Len(rows')].url = url[p]
            /\ rows'[Len(rows')].scraped_content = TextOf(p)
            /\ rows'[Len(rows')].raw_html = scrape[p].html
            /\ JsonLoadsDoc(rows'[Len(rows')].full_quiz_data) = synth[p].result
    /\ \A p \in Procs :
        (pc[p] # "done" /\ pc'[p] = "done" /\ out'[p].status # 200) => rows' = rows

NoPartialResult == [][NoPartialStep]_vars

\* C7 witness: a request went through fetch, gate and synthesis and its row
\* is in the table.
RowPersisted ==
    \E p \in Procs :
        /\ pc[p] = "done"
        /\ persist[p].id # 0
        /\ \E i \in DOMAIN rows : rows[i].id = persist[p].id /\ rows[i].url = url[p]

\* C8: a request whose insert hit the unique constraint finds the row when it
\* looks again, and is answered with that row as a cache hit.
DuplicateKeyRecovered ==
    \A p \in Procs :
        /\ pc[p] = "relookup" => \E i \in DOMAIN rows : rows[i].url = url[p]
        /\ (persist[p].conflict /\ pc[p] = "done") =>
            /\ out[p].status = 200
            /\ out[p].data[1].cached = TRUE
            /\ \E i \in DOMAIN rows :
                rows[i].url = url[p] /\ out[p].data[1].id = rows[i].id

\* C8 witness: a request hit the constraint and has been answered.
ConflictAnswered ==
    \E p \in Procs : persist[p].conflict /\ pc[p] = "done"

\* C9 (as claimed): the result has the caller's url, and the caller's title
\* whenever the caller has one.
TitleFromCaller ==
    \A p \in Procs :
        synth[p].result # NoData =>
            /\ synth[p].result.url = url[p]
            /\ TitleOf(p) # "" => synth[p].result.title = TitleOf(p)

\* C9 (amended): the result has the caller's url, the backend's title when
\* that is not empty and the caller's title otherwise, and the other fields
\* of the backend's document.
TitleBackfilled ==
    \A p \in Procs :
        synth[p].result # NoData =>
            LET sent == TryOnce(synth[p].reply).data
            IN  /\ synth[p].result.url = url[p]
                /\ synth[p].result.title =
                        IF sent.title # "" THEN sent.title ELSE TitleOf(p)
                /\ DOMAIN synth[p].result = DOMAIN sent
                /\ \A k \in (DOMAIN sent) \ {"url", "title"} :
                        synth[p].result[k] = sent[k]

\* C9 witness: the caller had a title, the backend sent another one, and the
\* result carries the backend's.
BackendTitleKept ==
    \E p \in Procs :
        /\ synth[p].result # NoData
        /\ TitleOf(p) = "A"
        /\ TryOnce(synth[p].reply).data.title = "B"
        /\ synth[p].result.title = "B"

\* C10: in generate_quiz_endpoint, text below the minimum length ends the
\* request with the insufficient-content error before generate_quiz is
\* called; text of the minimum length goes to generate_quiz.
MinContentGate ==
    \A p \in Procs :
        (scrape[p].html # NoHtml /\ ~Previewing(p)) =>
            /\ TextOf(p) < MinTextLen =>
                /\ pc[p] = "done"
                /\ out[p] = HTTPException(422, InsufficientText)
                /\ synth[p] = Synth0
            /\ TextOf(p) >= MinTextLen =>
                /\ out[p].detail # InsufficientText
                /\ pc[p] = "synth" \/ synth[p] # Synth0

\* C10 witness: a text of exactly the minimum length was sent to the backend.
MinLengthAccepted ==
    \E p \in Procs :
        /\ TextOf(p) = MinTextLen
        /\ synth[p].prompts # <<>>
        /\ synth[p].prompts[1].text.len = MinTextLen

\* C11: the prompt of each attempt carries the first MaxArticleLen characters
\* of an article text that is longer than that, and the whole text when it is
\* not longer.
TruncatedPrompt ==
    \A p \in Procs : \A i \in DOMAIN synth[p].prompts :
        LET sent == synth[p].prompts[i].text
        IN  /\ sent.from = 0
            /\ TextOf(p) > MaxArticleLen => sent.len = MaxArticleLen
            /\ TextOf(p) <= MaxArticleLen => sent.len = TextOf(p)

\* C11 witness: both attempts were made for an article one character longer
\* than the limit, each with a prompt of exactly the limit.
LongArticleCut ==
    \E p \in Procs :
        /\ TextOf(p) = MaxArticleLen + 1
        /\ Len(synth[p].prompts) = 2
        /\ \A i \in 1 .. 2 : synth[p].prompts[i].text.len = MaxArticleLen

\* C12: whatever the endpoints do, a step leaves every stored row as it was
\* (id, url, date_generated, document and the rest), gives a new row an id
\* that no stored row has and that the sequence has not issued, and the
\* total_cached of get_cache_stats, the number of rows, does not decrease:
\* not from one state to the next, and not below what a stats request has
\* counted or reported.
RowsKeptStep ==
    /\ Len(rows') >= Len(rows)
    /\ \A i \in DOMAIN rows : rows'[i] = rows[i]
    /\ \A i \in DOMAIN rows' \ DOMAIN rows :
            /\ \A j \in DOMAIN rows : rows'[i].id # rows[j].id
            /\ rows'[i].id >= nextId
    /\ nextId' >= nextId
    /\ \A p \in Procs :
            /\ pc[p] = "counting" => persist[p].total <= Len(rows')
            /\ pc[p] = "counted" => out[p].data[1].total_cached <= Len(rows')
RowsNeverChange == [][RowsKeptStep]_vars

\* C12 witness: two rows stored at different times under different ids, the
\* older one still as it was stored.
TwoRowsKept ==
    /\ Len(rows) = 2
    /\ rows[1].id = 1 /\ rows[1].date_generated = 0
    /\ rows[2].id # 1 /\ rows[2].date_generated = 1

\* C13 (as claimed): an attempt whose response parses and fits the schema
\* once every difficulty is put in lower case is accepted, and the result
\* carries the difficulties in lower case.
CaseFoldedBeforeValidation ==
    \A p \in Procs :
        LET reply == synth[p].reply
            text == CleanJsonText(reply.text)
            data == JsonLoads(text)
        IN  ( /\ synth[p].prompts # <<>>
              /\ reply.exc = ""
              /\ JsonParses(text)
              /\ ValidationErrors(LowerDifficulties(data)) = {} )
            =>  /\ synth[p].result # NoData
                /\ \A i \in DOMAIN data.quiz :
                        synth[p].result.quiz[i].difficulty = Lower(data.quiz[i].difficulty)

\* C14: a request that arrives when the table holds a row for its stripped
\* url ends in that step with the row's document, cached = TRUE and the row's
\* id and date_generated, having fetched, synthesized and inserted nothing;
\* and an ended request does nothing more.
CacheHitStep ==
    \A p \in Procs :
        /\ \A i \in DOMAIN rows :
            (pc[p] = "idle" /\ pc'[p] # "idle" /\ rows[i].url = url'[p]) =>
                /\ pc'[p] = "done"
                /\ out'[p].status = 200
                /\ LET d == out'[p].data[1]
                       doc == JsonLoadsDoc(rows[i].full_quiz_data)
                   IN  /\ MetaKeys \subseteq DOMAIN d
                       /\ d.cached = TRUE
                       /\ d.id = rows[i].id
                       /\ d.date_generated = IsoFormat(rows[i].date_generated)
                       /\ \A k \in (DOMAIN doc) \ MetaKeys : d[k] = doc[k]
                /\ scrape'[p] = Scrape0
                /\ synth'[p] = Synth0
                /\ persist'[p] = Persist0
                /\ rows' = rows /\ nextId' = nextId
        /\ pc[p] = "done" =>
                /\ pc'[p] = "done" /\ out'[p] = out[p]
                /\ scrape'[p] = scrape[p] /\ synth'[p] = synth[p]
                /\ persist'[p] = persist[p]
CacheHitReturnsAtOnce == [][CacheHitStep]_vars

\* C14 witness: a request was answered from the cache at its arrival (not
\* after a conflict), without a fetch, a synthesis or an insert.
AnsweredFromCache ==
    \E p \in Procs :
        /\ Answered(p)
        /\ out[p].data[1].cached = TRUE
        /\ scrape[p] = Scrape0 /\ synth[p] = Synth0 /\ persist[p] = Persist0
        /\ \E i \in DOMAIN rows : rows[i].url = url[p] /\ rows[i].id = out[p].data[1].id

\* C15 (as claimed): generate_quiz sends at most two prompts, and a second
\* prompt is sent only after a first attempt that ended in a parse failure
\* (empty or unparsable response) or a schema failure.
RetryOnlyOnParseOrSchema ==
    \A p \in Procs :
        /\ Len(synth[p].prompts) <= 2
        /\ Len(synth[p].prompts) = 2 =>
                /\ synth[p].first # NoDiag
                /\ synth[p].first[1] \in
                        {"Empty model response", "JSONDecodeError", "ValidationError"}

\* C15 (amended): generate_quiz sends at most two prompts; the first is the
\* formatted template, the second is sent only after a first attempt that
\* failed in any way (the backend call raised, or the response was empty,
\* unparsable or not of the schema) and is the first with the reminder
\* appended; after a successful first attempt, or after the second,
\* generate_quiz has ended.
AtMostTwoAttempts ==
    \A p \in Procs :
        LET sent == synth[p].prompts
            ended == synth[p].result # NoData \/ synth[p].raised # <<>>
        IN  /\ Len(sent) <= 2
            /\ Len(sent) >= 1 => ~sent[1].reminder
            /\ Len(sent) = 1 =>
                    /\ synth[p].first = NoDiag => synth[p].result # NoData
                    /\ synth[p].first # NoDiag => pc[p] = "retry" /\ ~ended
            /\ Len(sent) = 2 =>
                    /\ synth[p].first # NoDiag
                    /\ sent[2].reminder
                    /\ sent[2].url = sent[1].url
                    /\ sent[2].title = sent[1].title
                    /\ sent[2].text = sent[1].text
                    /\ ended
            /\ ended => pc[p] \notin {"synth", "retry"}

\* C15 witness: the backend call of the first attempt raised, and the second
\* attempt, with the reminder, succeeded.
SecondAttemptMade ==
    \E p \in Procs :
        /\ Len(synth[p].prompts) = 2
        /\ synth[p].prompts[2].reminder
        /\ synth[p].first = <<"DeadlineExceeded">>
        /\ synth[p].result # NoData

\* C16 (as claimed): over all the generate_quiz calls of the process the
\* model listing is queried a single time.
ModelPickedOncePerProcess ==
    /\ \A p \in Procs : synth[p].listed <= 1
    /\ \A p, q \in Procs : synth[p].listed > 0 /\ synth[q].listed > 0 => p = q

\* the names of the models of a listing that can generate, in listing order
CapableNames(listing) ==
    LET gen == SelectSeq(listing, Capable) IN [i \in DOMAIN gen |-> gen[i].name]

\* C17 (as claimed): _pick_model fails exactly when the listing has no
\* capable model, and otherwise returns a capable model of the listing: the
\* one the override names (by identifier or by full name) if there is one,
\* else the first of the preference list that is capable, else a capable one
\* with a fast-tier name, else the first capable one.
PickedByPriority ==
    \A p \in Procs :
        synth[p].listed = 1 =>
            LET names == CapableNames(synth[p].listing)
                nameset == { names[i] : i \in DOMAIN names }
                d == synth[p].desired
                m == synth[p].model
                over == { n \in nameset : n = d \/ (Len(d) = 1 /\ n = ModelsPrefixed(d[1])) }
                prefs == { i \in DOMAIN Preferences : ModelsPrefixed(Preferences[i]) \in nameset }
                fast == { n \in nameset : HasFlash(Simple(n)) }
            IN  /\ nameset = {} <=> m = NoModel
                /\ nameset # {} =>
                    /\ m \in nameset
                    /\ IF over # {} THEN m \in over
                       ELSE IF prefs # {}
                       THEN m = ModelsPrefixed(Preferences[CHOOSE i \in prefs : \A j \in prefs : i <= j])
                       ELSE IF fast # {} THEN m \in fast
                       ELSE m = names[1]

\* b is the key k with whitespace, and only whitespace, around it
PaddingOf(b, k) ==
    /\ k # <<>> /\ k[1] # "SP" /\ k[Len(k)] # "SP"
    /\ \E i, j \in 0 .. Len(b) :
            b = [x \in 1 .. i |-> "SP"] \o k \o [x \in 1 .. j |-> "SP"]

\* C18, in every state: no two rows have the same url, and a request that
\* was answered got the id of the row whose url is its posted url without the
\* surrounding whitespace, and of no row whose url differs in anything else.
KeyOfRows ==
    /\ \A i, j \in DOMAIN rows : rows[i].url = rows[j].url => i = j
    /\ \A p \in Procs :
            Answered(p) =>
                \E i \in DOMAIN rows :
                    /\ PaddingOf(body[p], rows[i].url)
                    /\ out[p].data[1].id = rows[i].id

\* C18: the key is the posted url without its surrounding whitespace, at the
\* lookup and at the insert.  An arriving request whose posted url is a
\* stored url with whitespace around it is answered from that row; one whose
\* posted url differs from every stored url in more than that (letter case,
\* a trailing slash, a fragment) misses the cache and goes on to fetch, and
\* what it inserts is a row of its own.
KeyStep ==
    /\ KeyOfRows'
    /\ \A p \in Procs :
        (pc[p] = "idle" /\ pc'[p] \in {"fetch", "done"}) =>
            /\ \A i \in DOMAIN rows :
                    PaddingOf(body'[p], rows[i].url) =>
                        /\ pc'[p] = "done"
                        /\ out'[p].status = 200
                        /\ out'[p].data[1].cached = TRUE
                        /\ out'[p].data[1].id = rows[i].id
            /\ (\A i \in DOMAIN rows : ~PaddingOf(body'[p], rows[i].url)) =>
                    pc'[p] = "fetch" /\ rows' = rows
    /\ \A i \in DOMAIN rows' \ DOMAIN rows :
            \E p \in Procs : pc[p] = "insert" /\ PaddingOf(body[p], rows'[i].url)
KeyIsStrippedUrl == [][KeyStep]_vars

\* C18 witness: the article was posted with whitespace around its url and
\* with another letter case; the table holds one row for the stripped url and
\* one for the other spelling, and each request got the id of its own row.
VariantsStoredApart ==
    \E p, q \in Procs :
        /\ body[p] = UrlAPadded /\ body[q] = UrlLower
        /\ Answered(p) /\ Answered(q)
        /\ { rows[i].url : i \in DOMAIN rows } = {UrlA, UrlLower}
        /\ out[p].data[1].id # out[q].data[1].id
        /\ out[p].data[1].cached = FALSE /\ out[q].data[1].cached = FALSE

\* C19: among the answered requests for one url at most one has
\* cached = FALSE, and it is the one whose insert stored the row of the url;
\* every answered request carries the id of that row, the others with
\* cached = TRUE.
OneUncachedAnswer ==
    \A p \in Procs :
        Answered(p) =>
            /\ \E i \in DOMAIN rows :
                    /\ rows[i].url = url[p]
                    /\ out[p].data[1].id = rows[i].id
                    /\ out[p].data[1].cached = FALSE <=> persist[p].id = rows[i].id
            /\ \A q \in Procs :
                    (Answered(q) /\ url[q] = url[p] /\ q # p) =>
                        /\ out[p].data[1].cached \/ out[q].data[1].cached
                        /\ out[q].data[1].id = out[p].data[1].id

\* C19 witness: two requests for one url ran side by side, both synthesized;
\* the one that inserted answered cached = FALSE, the other hit the
\* constraint and answered cached = TRUE with the same id.
OneInsertedOneCached ==
    \E p, q \in Procs :
        /\ Answered(p) /\ Answered(q) /\ url[p] = url[q]
        /\ persist[p].id # 0 /\ out[p].data[1].cached = FALSE
        /\ persist[q].conflict /\ out[q].data[1].cached = TRUE
        /\ out[q].data[1].id = persist[p].id

====
